---- MODULE Spec2Model ----
(***************************************************************************)
(* A model of adlist.c, the generic doubly linked list of Redis 4.0.       *)
(*                                                                         *)
(* The heap is a pool of node cells 1..MaxNodes; a pointer is a cell       *)
(* number and NULL is 0.  A list record is one of the two ids in Lists.    *)
(* Every function of adlist.c is an operator from a memory record (all the *)
(* fields of all nodes and lists, plus the function's return value and the *)
(* calls it made to the free hook) to the memory record it leaves; every   *)
(* action calls one function on the current memory and stores the result.  *)
(*                                                                         *)
(* Five specifications share the functions: Spec (two lists and every      *)
(* function that changes a list), SpecIter (one list and an iterator),     *)
(* SpecQuery (listIndex and listSearchKey), SpecRotate (repeated           *)
(* listRotate) and SpecDup (listDup, with the copy it returns).            *)
(***************************************************************************)
EXTENDS Integers, Sequences, FiniteSets, TLC

MaxNodes == 3
MaxValue == 2
MaxChanges == 1

NULL == 0
AL_START_HEAD == 0
AL_START_TAIL == 1

Nodes == 1..MaxNodes
Values == 1..MaxValue
Lists == {1, 2}
Ptr == Nodes \cup {NULL}

VARIABLES
  prev, next, value,   \* listNode fields, one function over the pool each
  live,                \* the node cells currently allocated
  head, tail, len,     \* list fields
  dup, free, match,    \* list hooks: TRUE when a method is installed
  iter,                \* the listIter record under observation
  op,                  \* the last call: name, outcome, free-hook calls
  safe,                \* the caller kept to listNext's rule since the iterator was set
  cur, orig, want, visited, removed, uaf,  \* history of the running iteration
  made,                \* the list records currently allocated
  res,                 \* what the last listIndex, listSearchKey or listDup returned
  base, turns          \* a node sequence recorded, and the calls counted since

memvars == <<prev, next, value, live, head, tail, len, dup, free, match>>
itervars == <<iter, safe, cur, orig, want, visited, removed, uaf>>
auxvars == <<made, res, base, turns>>
vars == <<prev, next, value, live, head, tail, len, dup, free, match,
          iter, op, safe, cur, orig, want, visited, removed, uaf,
          made, res, base, turns>>

----------------------------------------------------------------------------
(* Memory records *)

Enter ==
  [prev |-> prev, next |-> next, value |-> value, live |-> live,
   head |-> head, tail |-> tail, len |-> len,
   dup |-> dup, free |-> free, match |-> match,
   ret |-> NULL, calls |-> <<>>]

Store(m) ==
  /\ prev' = m.prev /\ next' = m.next /\ value' = m.value /\ live' = m.live
  /\ head' = m.head /\ tail' = m.tail /\ len' = m.len
  /\ dup' = m.dup /\ free' = m.free /\ match' = m.match

\* zfree(node): the cell goes back to the pool; its content is indeterminate
\* from then on and is kept in one canonical form.
zfree(m, n) ==
  [m EXCEPT !.live = @ \ {n}, !.prev[n] = NULL, !.next[n] = NULL,
            !.value[n] = NULL]

\* if (list->free) list->free(v)
callFree(m, l, v) ==
  IF m.free[l] THEN [m EXCEPT !.calls = Append(@, v)] ELSE m

----------------------------------------------------------------------------
(* The functions of adlist.c.  `node` is what zmalloc returned: a cell that *)
(* was not allocated, or NULL.                                              *)

\* Variant of listAddNodeHead: the non-empty branch does not move list->head.
listAddNodeHead_NoHead(m, l, node, v) ==
  IF node = NULL THEN [m EXCEPT !.ret = NULL]
  ELSE
    LET m1 == [m EXCEPT !.live = @ \cup {node}, !.value[node] = v]
        m2 == IF m1.len[l] = 0
              THEN [m1 EXCEPT !.head[l] = node, !.tail[l] = node,
                              !.prev[node] = NULL, !.next[node] = NULL]
              ELSE [m1 EXCEPT !.prev[node] = NULL,
                              !.next[node] = m1.head[l],
                              !.prev[m1.head[l]] = node]
    IN [m2 EXCEPT !.len[l] = @ + 1, !.ret = l]

listAddNodeHead(m, l, node, v) ==
  IF node = NULL THEN [m EXCEPT !.ret = NULL]
  ELSE
    LET m1 == [m EXCEPT !.live = @ \cup {node}, !.value[node] = v]
        m2 == IF m1.len[l] = 0
              THEN [m1 EXCEPT !.head[l] = node, !.tail[l] = node,
                              !.prev[node] = NULL, !.next[node] = NULL]
              ELSE [m1 EXCEPT !.prev[node] = NULL,
                              !.next[node] = m1.head[l],
                              !.prev[m1.head[l]] = node,
                              !.head[l] = node]
    IN [m2 EXCEPT !.len[l] = @ + 1, !.ret = l]

\* Variant of listAddNodeTail: the length is counted before the allocation
\* is checked.
listAddNodeTail_CountFirst(m, l, node, v) ==
  LET m0 == [m EXCEPT !.len[l] = @ + 1] IN
  IF node = NULL THEN [m0 EXCEPT !.ret = NULL]
  ELSE
    LET m1 == [m0 EXCEPT !.live = @ \cup {node}, !.value[node] = v]
        m2 == IF m.len[l] = 0
              THEN [m1 EXCEPT !.head[l] = node, !.tail[l] = node,
                              !.prev[node] = NULL, !.next[node] = NULL]
              ELSE [m1 EXCEPT !.prev[node] = m1.tail[l],
                              !.next[node] = NULL,
                              !.next[m1.tail[l]] = node,
                              !.tail[l] = node]
    IN [m2 EXCEPT !.ret = l]

listAddNodeTail(m, l, node, v) ==
  IF node = NULL THEN [m EXCEPT !.ret = NULL]
  ELSE
    LET m1 == [m EXCEPT !.live = @ \cup {node}, !.value[node] = v]
        m2 == IF m1.len[l] = 0
              THEN [m1 EXCEPT !.head[l] = node, !.tail[l] = node,
                              !.prev[node] = NULL, !.next[node] = NULL]
              ELSE [m1 EXCEPT !.prev[node] = m1.tail[l],
                              !.next[node] = NULL,
                              !.next[m1.tail[l]] = node,
                              !.tail[l] = node]
    IN [m2 EXCEPT !.len[l] = @ + 1, !.ret = l]

\* Variant of listInsertNode: list->tail is not moved to a node placed
\* after the tail.
listInsertNode_NoTail(m, l, old_node, node, v, after) ==
  IF node = NULL THEN [m EXCEPT !.ret = NULL]
  ELSE
    LET m1 == [m EXCEPT !.live = @ \cup {node}, !.value[node] = v]
        m2 == IF after
              THEN [m1 EXCEPT !.prev[node] = old_node,
                              !.next[node] = m1.next[old_node]]
              ELSE LET b == [m1 EXCEPT !.next[node] = old_node,
                                       !.prev[node] = m1.prev[old_node]]
                   IN IF b.head[l] = old_node
                      THEN [b EXCEPT !.head[l] = node] ELSE b
        m3 == IF m2.prev[node] # NULL
              THEN [m2 EXCEPT !.next[m2.prev[node]] = node] ELSE m2
        m4 == IF m3.next[node] # NULL
              THEN [m3 EXCEPT !.prev[m3.next[node]] = node] ELSE m3
    IN [m4 EXCEPT !.len[l] = @ + 1, !.ret = l]

\* Variant of listInsertNode: the successor's prev link is not set.
listInsertNode_NoBackLink(m, l, old_node, node, v, after) ==
  IF node = NULL THEN [m EXCEPT !.ret = NULL]
  ELSE
    LET m1 == [m EXCEPT !.live = @ \cup {node}, !.value[node] = v]
        m2 == IF after
              THEN LET a == [m1 EXCEPT !.prev[node] = old_node,
                                       !.next[node] = m1.next[old_node]]
                   IN IF a.tail[l] = old_node
                      THEN [a EXCEPT !.tail[l] = node] ELSE a
              ELSE LET b == [m1 EXCEPT !.next[node] = old_node,
                                       !.prev[node] = m1.prev[old_node]]
                   IN IF b.head[l] = old_node
                      THEN [b EXCEPT !.head[l] = node] ELSE b
        m3 == IF m2.prev[node] # NULL
              THEN [m2 EXCEPT !.next[m2.prev[node]] = node] ELSE m2
    IN [m3 EXCEPT !.len[l] = @ + 1, !.ret = l]

listInsertNode(m, l, old_node, node, v, after) ==
  IF node = NULL THEN [m EXCEPT !.ret = NULL]
  ELSE
    LET m1 == [m EXCEPT !.live = @ \cup {node}, !.value[node] = v]
        m2 == IF after
              THEN LET a == [m1 EXCEPT !.prev[node] = old_node,
                                       !.next[node] = m1.next[old_node]]
                   IN IF a.tail[l] = old_node
                      THEN [a EXCEPT !.tail[l] = node] ELSE a
              ELSE LET b == [m1 EXCEPT !.next[node] = old_node,
                                       !.prev[node] = m1.prev[old_node]]
                   IN IF b.head[l] = old_node
                      THEN [b EXCEPT !.head[l] = node] ELSE b
        m3 == IF m2.prev[node] # NULL
              THEN [m2 EXCEPT !.next[m2.prev[node]] = node] ELSE m2
        m4 == IF m3.next[node] # NULL
              THEN [m3 EXCEPT !.prev[m3.next[node]] = node] ELSE m3
    IN [m4 EXCEPT !.len[l] = @ + 1, !.ret = l]

\* Variant of listDelNode: the value is never handed to the free method.
listDelNode_NoFree(m, l, node) ==
  LET m1 == IF m.prev[node] # NULL
            THEN [m EXCEPT !.next[m.prev[node]] = m.next[node]]
            ELSE [m EXCEPT !.head[l] = m.next[node]]
      m2 == IF m1.next[node] # NULL
            THEN [m1 EXCEPT !.prev[m1.next[node]] = m1.prev[node]]
            ELSE [m1 EXCEPT !.tail[l] = m1.prev[node]]
      m4 == zfree(m2, node)
  IN [m4 EXCEPT !.len[l] = @ - 1]

\* Variant of listDelNode: the successor's prev link is not moved past the
\* node.
listDelNode_NoPrevFix(m, l, node) ==
  LET m1 == IF m.prev[node] # NULL
            THEN [m EXCEPT !.next[m.prev[node]] = m.next[node]]
            ELSE [m EXCEPT !.head[l] = m.next[node]]
      m2 == IF m1.next[node] # NULL
            THEN m1
            ELSE [m1 EXCEPT !.tail[l] = m1.prev[node]]
      m3 == callFree(m2, l, m2.value[node])
      m4 == zfree(m3, node)
  IN [m4 EXCEPT !.len[l] = @ - 1]

listDelNode(m, l, node) ==
  LET m1 == IF m.prev[node] # NULL
            THEN [m EXCEPT !.next[m.prev[node]] = m.next[node]]
            ELSE [m EXCEPT !.head[l] = m.next[node]]
      m2 == IF m1.next[node] # NULL
            THEN [m1 EXCEPT !.prev[m1.next[node]] = m1.prev[node]]
            ELSE [m1 EXCEPT !.tail[l] = m1.prev[node]]
      m3 == callFree(m2, l, m2.value[node])
      m4 == zfree(m3, node)
  IN [m4 EXCEPT !.len[l] = @ - 1]

\* while(len--) { next = current->next; free hook; zfree(current); current = next; }
RECURSIVE listEmptyLoop(_, _, _, _)
listEmptyLoop(m, l, current, n) ==
  IF n = 0 THEN m
  ELSE LET nxt == m.next[current]
           m1 == callFree(m, l, m.value[current])
           m2 == zfree(m1, current)
       IN listEmptyLoop(m2, l, nxt, n - 1)

\* Variant of listEmpty: list->tail is left as it was.
listEmpty_KeepTail(m, l) ==
  LET m1 == listEmptyLoop(m, l, m.head[l], m.len[l])
  IN [m1 EXCEPT !.head[l] = NULL, !.len[l] = 0]

listEmpty(m, l) ==
  LET m1 == listEmptyLoop(m, l, m.head[l], m.len[l])
  IN [m1 EXCEPT !.head[l] = NULL, !.tail[l] = NULL, !.len[l] = 0]

\* Variant of listRotate: the moved node keeps its old prev link.
listRotate_KeepPrev(m, l) ==
  LET t == m.tail[l] IN
  IF m.len[l] <= 1 THEN m
  ELSE
    LET m1 == [m EXCEPT !.tail[l] = m.prev[t]]
        m2 == [m1 EXCEPT !.next[m1.tail[l]] = NULL]
        m3 == [m2 EXCEPT !.prev[m2.head[l]] = t]
        m5 == [m3 EXCEPT !.next[t] = m3.head[l]]
    IN [m5 EXCEPT !.head[l] = t]

\* Variant of listRotate: the head node is moved to the tail.
listRotate_HeadToTail(m, l) ==
  LET h == m.head[l] IN
  IF m.len[l] <= 1 THEN m
  ELSE
    LET m1 == [m EXCEPT !.head[l] = m.next[h]]
        m2 == [m1 EXCEPT !.prev[m1.head[l]] = NULL]
        m3 == [m2 EXCEPT !.next[m2.tail[l]] = h]
        m4 == [m3 EXCEPT !.next[h] = NULL]
        m5 == [m4 EXCEPT !.prev[h] = m4.tail[l]]
    IN [m5 EXCEPT !.tail[l] = h]

\* Variant of listRotate: a list of two nodes is left as it is.
listRotate_SkipPair(m, l) ==
  LET t == m.tail[l] IN
  IF m.len[l] <= 2 THEN m
  ELSE
    LET m1 == [m EXCEPT !.tail[l] = m.prev[t]]
        m2 == [m1 EXCEPT !.next[m1.tail[l]] = NULL]
        m3 == [m2 EXCEPT !.prev[m2.head[l]] = t]
        m4 == [m3 EXCEPT !.prev[t] = NULL]
        m5 == [m4 EXCEPT !.next[t] = m4.head[l]]
    IN [m5 EXCEPT !.head[l] = t]

listRotate(m, l) ==
  LET t == m.tail[l] IN
  IF m.len[l] <= 1 THEN m
  ELSE
    LET m1 == [m EXCEPT !.tail[l] = m.prev[t]]
        m2 == [m1 EXCEPT !.next[m1.tail[l]] = NULL]
        m3 == [m2 EXCEPT !.prev[m2.head[l]] = t]
        m4 == [m3 EXCEPT !.prev[t] = NULL]
        m5 == [m4 EXCEPT !.next[t] = m4.head[l]]
    IN [m5 EXCEPT !.head[l] = t]

\* Variant of listJoin: the lengths are not added.
listJoin_NoLen(m, l, o) ==
  LET m1 == IF m.head[o] # NULL
            THEN [m EXCEPT !.prev[m.head[o]] = m.tail[l]] ELSE m
      m2 == IF m1.tail[l] # NULL
            THEN [m1 EXCEPT !.next[m1.tail[l]] = m1.head[o]]
            ELSE [m1 EXCEPT !.head[l] = m1.head[o]]
      m3 == IF m2.tail[o] # NULL
            THEN [m2 EXCEPT !.tail[l] = m2.tail[o]] ELSE m2
  IN [m3 EXCEPT !.head[o] = NULL, !.tail[o] = NULL, !.len[o] = 0]

\* Variant of listJoin: l->tail = o->tail without the test of o->tail.
listJoin_TailAlways(m, l, o) ==
  LET m1 == IF m.head[o] # NULL
            THEN [m EXCEPT !.prev[m.head[o]] = m.tail[l]] ELSE m
      m2 == IF m1.tail[l] # NULL
            THEN [m1 EXCEPT !.next[m1.tail[l]] = m1.head[o]]
            ELSE [m1 EXCEPT !.head[l] = m1.head[o]]
      m3 == [m2 EXCEPT !.tail[l] = m2.tail[o]]
      m4 == [m3 EXCEPT !.len[l] = @ + m3.len[o]]
  IN [m4 EXCEPT !.head[o] = NULL, !.tail[o] = NULL, !.len[o] = 0]

listJoin(m, l, o) ==
  LET m1 == IF m.head[o] # NULL
            THEN [m EXCEPT !.prev[m.head[o]] = m.tail[l]] ELSE m
      m2 == IF m1.tail[l] # NULL
            THEN [m1 EXCEPT !.next[m1.tail[l]] = m1.head[o]]
            ELSE [m1 EXCEPT !.head[l] = m1.head[o]]
      m3 == IF m2.tail[o] # NULL
            THEN [m2 EXCEPT !.tail[l] = m2.tail[o]] ELSE m2
      m4 == [m3 EXCEPT !.len[l] = @ + m3.len[o]]
  IN [m4 EXCEPT !.head[o] = NULL, !.tail[o] = NULL, !.len[o] = 0]

----------------------------------------------------------------------------
(* The iterator.  A listIter is a record: next, direction, and whether the  *)
(* caller holds it at all.                                                  *)

\* What a read of field `link` of cell n yields: the field of an allocated
\* cell; for a cell that was freed, anything (`junk`).
Load(m, link, n, junk) == IF n \in m.live THEN link[n] ELSE junk

\* No iterator in use: none was created, or the list was changed under it.
NoIter == [next |-> NULL, direction |-> AL_START_HEAD, valid |-> FALSE]

\* `ok`: whether zmalloc gave the iterator record.
listGetIterator(m, l, ok, direction) ==
  IF ~ok THEN [next |-> NULL, direction |-> AL_START_HEAD, valid |-> FALSE]
  ELSE [next |-> IF direction = AL_START_HEAD THEN m.head[l] ELSE m.tail[l],
        direction |-> direction, valid |-> TRUE]

listRewind(m, l, li) ==
  [next |-> m.head[l], direction |-> AL_START_HEAD, valid |-> TRUE]

listRewindTail(m, l, li) ==
  [next |-> m.tail[l], direction |-> AL_START_TAIL, valid |-> TRUE]

\* Variant of listNext: the direction test is inverted.
listNext_Swapped(m, it, junk) ==
  LET current == it.next IN
  IF current # NULL
  THEN [iter |-> [it EXCEPT !.next =
                    IF it.direction # AL_START_HEAD
                    THEN Load(m, m.next, current, junk)
                    ELSE Load(m, m.prev, current, junk)],
        ret |-> current, deref |-> {current}]
  ELSE [iter |-> it, ret |-> NULL, deref |-> {}]

\* The iterator after the call, the node returned, and the cells whose
\* fields the call read.
listNext(m, it, junk) ==
  LET current == it.next IN
  IF current # NULL
  THEN [iter |-> [it EXCEPT !.next =
                    IF it.direction = AL_START_HEAD
                    THEN Load(m, m.next, current, junk)
                    ELSE Load(m, m.prev, current, junk)],
        ret |-> current, deref |-> {current}]
  ELSE [iter |-> it, ret |-> NULL, deref |-> {}]

\* while(index-- && n) n = n->link;
RECURSIVE listIndexLoop(_, _, _)
listIndexLoop(link, n, index) ==
  IF index = 0 \/ n = NULL THEN n
  ELSE listIndexLoop(link, link[n], index - 1)

\* Variant of listIndex: a negative index is negated and not decremented.
listIndex_NoDecrement(m, l, index) ==
  IF index < 0
  THEN listIndexLoop(m.prev, m.tail[l], -index)
  ELSE listIndexLoop(m.next, m.head[l], index)

listIndex(m, l, index) ==
  IF index < 0
  THEN listIndexLoop(m.prev, m.tail[l], (-index) - 1)
  ELSE listIndexLoop(m.next, m.head[l], index)

\* The match method the caller installed: it compares what the value and
\* the key point to, not the two pointers.  Here a value matches every key
\* above it, so a key can match several values, or a value other than
\* itself.
matchMethod(v, key) == v < key

\* while((node = listNext(&iter)) != NULL) { ... return node; } return NULL;
RECURSIVE listSearchKeyLoop(_, _, _, _)
listSearchKeyLoop(m, l, key, it) ==
  LET r == listNext(m, it, NULL)
      node == r.ret
  IN IF node = NULL THEN NULL
     ELSE IF m.match[l]
          THEN IF matchMethod(m.value[node], key) THEN node
               ELSE listSearchKeyLoop(m, l, key, r.iter)
          ELSE IF key = m.value[node] THEN node
               ELSE listSearchKeyLoop(m, l, key, r.iter)

\* Variant of listSearchKey: the search starts at the tail.
listSearchKey_FromTail(m, l, key) ==
  listSearchKeyLoop(m, l, key, listRewindTail(m, l, NoIter))

\* Variant of listSearchKey: the match method is not consulted.
listSearchKey_ByPointer(m, l, key) ==
  listSearchKeyLoop([m EXCEPT !.match[l] = FALSE], l, key,
                    listRewind(m, l, NoIter))

listSearchKey(m, l, key) ==
  listSearchKeyLoop(m, l, key, listRewind(m, l, NoIter))

----------------------------------------------------------------------------
(* Whole lists: listCreate, listRelease, listDup.  The memory record has   *)
(* two more fields here: `made`, the list records allocated, and `dups`,   *)
(* the calls made to the dup method, each as <<argument, result>>.         *)

\* `list` is what zmalloc returned: a list record not allocated, or NULL.
listCreate(m, list) ==
  IF list = NULL THEN [m EXCEPT !.ret = NULL]
  ELSE [m EXCEPT !.made = @ \cup {list},
                 !.head[list] = NULL, !.tail[list] = NULL, !.len[list] = 0,
                 !.dup[list] = FALSE, !.free[list] = FALSE,
                 !.match[list] = FALSE, !.ret = list]

\* Variant of listRelease: the record is freed, the nodes are not.
listRelease_NoEmpty(m, l) ==
  [m EXCEPT !.made = @ \ {l}, !.head[l] = NULL, !.tail[l] = NULL,
            !.len[l] = 0, !.dup[l] = FALSE, !.free[l] = FALSE,
            !.match[l] = FALSE]

\* listEmpty(list); zfree(list): the content of the freed record is
\* indeterminate and is kept in one canonical form.
listRelease(m, l) ==
  LET m1 == listEmpty(m, l)
  IN [m1 EXCEPT !.made = @ \ {l}, !.dup[l] = FALSE, !.free[l] = FALSE,
                !.match[l] = FALSE]

\* Variant of the loop of listDup: each value is added at the head of the
\* copy.
RECURSIVE listDupLoop_AtHead(_, _, _, _, _, _, _)
listDupLoop_AtHead(m, src, copy, it, hook, cells, i) ==
  LET r == listNext(m, it, NULL)
      node == r.ret
  IN IF node = NULL THEN [m EXCEPT !.ret = copy]
     ELSE
       LET called == m.dup[copy]
           v == IF called THEN hook[i] ELSE m.value[node]
           m1 == IF called
                 THEN [m EXCEPT !.dups = Append(@, <<m.value[node], v>>)]
                 ELSE m
       IN IF called /\ v = NULL
          THEN [listRelease(m1, copy) EXCEPT !.ret = NULL]
          ELSE LET m2 == listAddNodeHead(m1, copy, cells[i], v)
               IN IF m2.ret = NULL
                  THEN [listRelease(m2, copy) EXCEPT !.ret = NULL]
                  ELSE listDupLoop_AtHead(m2, src, copy, r.iter, hook,
                                          cells, i + 1)

\* while((node = listNext(&iter)) != NULL) { ... }  return copy;
\* hook[i] is what the dup method returns when called for the i-th node,
\* cells[i] what zmalloc returns to the listAddNodeTail of the i-th node.
RECURSIVE listDupLoop(_, _, _, _, _, _, _)
listDupLoop(m, src, copy, it, hook, cells, i) ==
  LET r == listNext(m, it, NULL)
      node == r.ret
  IN IF node = NULL THEN [m EXCEPT !.ret = copy]
     ELSE
       LET called == m.dup[copy]
           v == IF called THEN hook[i] ELSE m.value[node]
           m1 == IF called
                 THEN [m EXCEPT !.dups = Append(@, <<m.value[node], v>>)]
                 ELSE m
       IN IF called /\ v = NULL
          THEN [listRelease(m1, copy) EXCEPT !.ret = NULL]
          ELSE LET m2 == listAddNodeTail(m1, copy, cells[i], v)
               IN IF m2.ret = NULL
                  THEN [listRelease(m2, copy) EXCEPT !.ret = NULL]
                  ELSE listDupLoop(m2, src, copy, r.iter, hook, cells,
                                   i + 1)

\* Variant of listDup: the three hooks are assigned from the copy to the
\* original.
listDup_HooksBackwards(m, src, list, hook, cells) ==
  LET m0 == listCreate(m, list) IN
  IF m0.ret = NULL THEN m0
  ELSE
    LET copy == m0.ret
        m1 == [m0 EXCEPT !.dup[src] = m0.dup[copy],
                         !.free[src] = m0.free[copy],
                         !.match[src] = m0.match[copy]]
    IN listDupLoop(m1, src, copy, listRewind(m1, src, NoIter), hook,
                   cells, 1)

listDup(m, src, list, hook, cells) ==
  LET m0 == listCreate(m, list) IN
  IF m0.ret = NULL THEN m0
  ELSE
    LET copy == m0.ret
        m1 == [m0 EXCEPT !.dup[copy] = m0.dup[src],
                         !.free[copy] = m0.free[src],
                         !.match[copy] = m0.match[src]]
    IN listDupLoop(m1, src, copy, listRewind(m1, src, NoIter), hook,
                   cells, 1)

----------------------------------------------------------------------------
(* Traversals used to state the properties: the cells met from `n` along   *)
(* one link field, at most `fuel` of them.                                  *)

RECURSIVE Walk(_, _, _)
Walk(link, n, fuel) ==
  IF n = NULL \/ fuel = 0 THEN <<>>
  ELSE <<n>> \o Walk(link, link[n], fuel - 1)

Fwd(l) == Walk(next, head[l], MaxNodes + 1)
Bwd(l) == Walk(prev, tail[l], MaxNodes + 1)
ValSeq(l) == [i \in 1..Len(Fwd(l)) |-> value[Fwd(l)[i]]]

Reverse(s) == [i \in 1..Len(s) |-> s[Len(s) + 1 - i]]
Range(s) == {s[i] : i \in 1..Len(s)}
InList(l) == Range(Fwd(l))
Without(s, n) == SelectSeq(s, LAMBDA x : x # n)

\* The memory after the step, for the functions that only read it.
After ==
  [prev |-> prev', next |-> next', value |-> value', live |-> live',
   head |-> head', tail |-> tail', len |-> len',
   dup |-> dup', free |-> free', match |-> match',
   ret |-> NULL, calls |-> <<>>]

----------------------------------------------------------------------------
(* Initial state: two lists as listCreate leaves them, no node allocated.  *)

NoOp == [name |-> "listCreate", oom |-> FALSE, failed |-> FALSE,
         calls |-> <<>>]

\* The call just made: the function, whether zmalloc failed in it, whether
\* it returned NULL, and the values it handed to the free hook, in order.
Called(nm, node, m) ==
  op' = [name |-> nm, oom |-> (node = NULL), failed |-> (m.ret = NULL),
         calls |-> m.calls]

CalledVoid(nm, m) ==
  op' = [name |-> nm, oom |-> FALSE, failed |-> FALSE, calls |-> m.calls]

\* No result held: the last call was not a query or a duplication.
NoRes == [ret |-> NULL]

Init ==
  /\ prev = [n \in Nodes |-> NULL]
  /\ next = [n \in Nodes |-> NULL]
  /\ value = [n \in Nodes |-> NULL]
  /\ live = {}
  /\ head = [l \in Lists |-> NULL]
  /\ tail = [l \in Lists |-> NULL]
  /\ len = [l \in Lists |-> 0]
  /\ dup = [l \in Lists |-> FALSE]
  /\ free = [l \in Lists |-> FALSE]
  /\ match = [l \in Lists |-> FALSE]
  /\ iter = NoIter
  /\ op = NoOp
  /\ safe = TRUE
  /\ cur = NULL
  /\ orig = <<>>
  /\ want = AL_START_HEAD
  /\ visited = <<>>
  /\ removed = {}
  /\ uaf = FALSE
  /\ made = Lists
  /\ res = NoRes
  /\ base = <<>>
  /\ turns = 0

\* What zmalloc may return: any cell not allocated, or NULL.  A call made
\* when the whole pool is allocated is outside the model (the pool size is
\* the bound on the number of nodes).
zmalloc == IF live = Nodes THEN {} ELSE (Nodes \ live) \cup {NULL}

----------------------------------------------------------------------------
(* Actions of the list specification: any call, any arguments that meet    *)
(* the documented preconditions.                                            *)

\* listSetFreeMethod(l, m): list 1 may carry a free method, installed or
\* cleared at any time; list 2 keeps what listCreate gave it.
SetFreeMethod ==
  \E l \in {1}, b \in BOOLEAN :
    /\ free[l] # b
    /\ free' = [free EXCEPT ![l] = b]
    /\ op' = [NoOp EXCEPT !.name = "listSetFreeMethod"]
    /\ UNCHANGED <<prev, next, value, live, head, tail, len, dup, match>>
    /\ UNCHANGED itervars
    /\ UNCHANGED auxvars

AddNodeHead ==
  \E l \in Lists, v \in Values, node \in zmalloc :
    LET m == listAddNodeHead(Enter, l, node, v) IN
    /\ Store(m)
    /\ Called("listAddNodeHead", node, m)
    /\ UNCHANGED itervars
    /\ UNCHANGED auxvars

AddNodeTail ==
  \E l \in Lists, v \in Values, node \in zmalloc :
    LET m == listAddNodeTail(Enter, l, node, v) IN
    /\ Store(m)
    /\ Called("listAddNodeTail", node, m)
    /\ UNCHANGED itervars
    /\ UNCHANGED auxvars

InsertNode ==
  \E l \in Lists, v \in Values, node \in zmalloc, after \in BOOLEAN :
    \E old_node \in InList(l) :
      LET m == listInsertNode(Enter, l, old_node, node, v, after) IN
      /\ Store(m)
      /\ Called("listInsertNode", node, m)
      /\ UNCHANGED itervars
      /\ UNCHANGED auxvars

DelNode ==
  \E l \in Lists :
    \E node \in InList(l) :
      LET m == listDelNode(Enter, l, node) IN
      /\ Store(m)
      /\ CalledVoid("listDelNode", m)
      /\ UNCHANGED itervars
      /\ UNCHANGED auxvars

Empty ==
  \E l \in Lists :
    LET m == listEmpty(Enter, l) IN
    /\ Store(m)
    /\ CalledVoid("listEmpty", m)
    /\ UNCHANGED itervars
    /\ UNCHANGED auxvars

Rotate ==
  \E l \in Lists :
    LET m == listRotate(Enter, l) IN
    /\ Store(m)
    /\ CalledVoid("listRotate", m)
    /\ UNCHANGED itervars
    /\ UNCHANGED auxvars

Join ==
  \E l \in Lists, o \in Lists :
    /\ l # o
    /\ LET m == listJoin(Enter, l, o) IN
       /\ Store(m)
       /\ CalledVoid("listJoin", m)
    /\ UNCHANGED itervars
    /\ UNCHANGED auxvars

Next ==
  \/ SetFreeMethod
  \/ AddNodeHead
  \/ AddNodeTail
  \/ InsertNode
  \/ DelNode
  \/ Empty
  \/ Rotate
  \/ Join

Spec == Init /\ [][Next]_vars

----------------------------------------------------------------------------
(* The iteration specification: one list, one iterator, and a caller that  *)
(* between two calls of listNext may delete a node.  Deleting the node it  *)
(* was just given is what listNext allows; after deleting any other node   *)
(* the caller goes on with an iterator that may point to a freed cell      *)
(* (`safe` is FALSE from then on, until the iterator is set again).  An    *)
(* insertion ends the iteration: the caller drops the iterator.            *)

Named(nm) ==
  op' = [name |-> nm, oom |-> FALSE, failed |-> FALSE, calls |-> <<>>]

\* The iteration starts: what the list held and the direction asked for.
Begin(direction) ==
  /\ safe' = TRUE
  /\ orig' = Fwd(1)
  /\ want' = direction
  /\ visited' = <<>>
  /\ removed' = {}
  /\ cur' = NULL
  /\ uaf' = FALSE

\* Nothing is recorded of an iteration that is over or out of the rule.
Forget ==
  /\ orig' = <<>>
  /\ want' = AL_START_HEAD
  /\ visited' = <<>>
  /\ removed' = {}
  /\ cur' = NULL

Drop ==
  /\ iter' = NoIter
  /\ safe' = TRUE
  /\ uaf' = FALSE
  /\ Forget

IterAddNodeHead ==
  \E v \in Values, node \in zmalloc :
    LET m == listAddNodeHead(Enter, 1, node, v) IN
    /\ Store(m)
    /\ Called("listAddNodeHead", node, m)
    /\ Drop
    /\ UNCHANGED auxvars

IterAddNodeTail ==
  \E v \in Values, node \in zmalloc :
    LET m == listAddNodeTail(Enter, 1, node, v) IN
    /\ Store(m)
    /\ Called("listAddNodeTail", node, m)
    /\ Drop
    /\ UNCHANGED auxvars

IterDelNode ==
  \E node \in InList(1) :
    LET m == listDelNode(Enter, 1, node) IN
    /\ Store(m)
    /\ CalledVoid("listDelNode", m)
    /\ IF ~iter.valid THEN Drop
       ELSE IF safe /\ node = cur
       THEN /\ removed' = removed \cup {node}
            /\ cur' = NULL
            /\ UNCHANGED <<iter, safe, orig, want, visited, uaf>>
       ELSE /\ safe' = FALSE
            /\ Forget
            /\ UNCHANGED <<iter, uaf>>
    /\ UNCHANGED auxvars

GetIterator ==
  \E direction \in {AL_START_HEAD, AL_START_TAIL}, ok \in BOOLEAN :
    /\ iter' = listGetIterator(Enter, 1, ok, direction)
    /\ IF ok THEN Begin(direction)
       ELSE safe' = TRUE /\ uaf' = FALSE /\ Forget
    /\ op' = [name |-> "listGetIterator", oom |-> ~ok, failed |-> ~ok,
              calls |-> <<>>]
    /\ UNCHANGED memvars
    /\ UNCHANGED auxvars

Rewind ==
  /\ iter' = listRewind(Enter, 1, iter)
  /\ Begin(AL_START_HEAD)
  /\ Named("listRewind")
  /\ UNCHANGED auxvars
  /\ UNCHANGED memvars

RewindTail ==
  /\ iter' = listRewindTail(Enter, 1, iter)
  /\ Begin(AL_START_TAIL)
  /\ Named("listRewindTail")
  /\ UNCHANGED auxvars
  /\ UNCHANGED memvars

NextNode ==
  /\ iter.valid
  /\ Len(visited) <= MaxNodes
  /\ \E junk \in Ptr :
       LET r == listNext(Enter, iter, junk) IN
       /\ iter' = r.iter
       /\ cur' = IF safe THEN r.ret ELSE NULL
       /\ visited' = IF safe /\ r.ret # NULL
                     THEN Append(visited, r.ret) ELSE visited
       /\ uaf' = (uaf \/ ~(r.deref \subseteq live))
  /\ Named("listNext")
  /\ UNCHANGED auxvars
  /\ UNCHANGED <<safe, orig, want, removed>>
  /\ UNCHANGED memvars

NextIter ==
  \/ IterAddNodeHead
  \/ IterAddNodeTail
  \/ IterDelNode
  \/ GetIterator
  \/ Rewind
  \/ RewindTail
  \/ NextNode

SpecIter == Init /\ [][NextIter]_vars

----------------------------------------------------------------------------
(* The query specification: one list, built and cut by any calls, with or  *)
(* without a match method, and a caller that asks for the node at an index *)
(* or the node holding a key.                                               *)

\* The indexes asked for: past both ends of the longest list.
Indexes == (-(MaxNodes + 2))..(MaxNodes + 1)
\* The keys asked for: every value pointer and one that no node holds.
Keys == 1..(MaxValue + 1)

\* listSetMatchMethod(l, m)
SetMatchMethod ==
  \E b \in BOOLEAN :
    /\ match[1] # b
    /\ match' = [match EXCEPT ![1] = b]
    /\ op' = [NoOp EXCEPT !.name = "listSetMatchMethod"]
    /\ res' = NoRes
    /\ UNCHANGED <<prev, next, value, live, head, tail, len, dup, free>>
    /\ UNCHANGED <<itervars, made, base, turns>>

QueryAddNodeHead ==
  \E v \in Values, node \in zmalloc :
    LET m == listAddNodeHead(Enter, 1, node, v) IN
    /\ Store(m)
    /\ Called("listAddNodeHead", node, m)
    /\ res' = NoRes
    /\ UNCHANGED <<itervars, made, base, turns>>

QueryAddNodeTail ==
  \E v \in Values, node \in zmalloc :
    LET m == listAddNodeTail(Enter, 1, node, v) IN
    /\ Store(m)
    /\ Called("listAddNodeTail", node, m)
    /\ res' = NoRes
    /\ UNCHANGED <<itervars, made, base, turns>>

QueryDelNode ==
  \E node \in InList(1) :
    LET m == listDelNode(Enter, 1, node) IN
    /\ Store(m)
    /\ CalledVoid("listDelNode", m)
    /\ res' = NoRes
    /\ UNCHANGED <<itervars, made, base, turns>>

Index ==
  \E index \in Indexes :
    /\ res' = [ret |-> listIndex(Enter, 1, index), index |-> index]
    /\ Named("listIndex")
    /\ UNCHANGED memvars
    /\ UNCHANGED <<itervars, made, base, turns>>

SearchKey ==
  \E key \in Keys :
    /\ res' = [ret |-> listSearchKey(Enter, 1, key), key |-> key]
    /\ Named("listSearchKey")
    /\ UNCHANGED memvars
    /\ UNCHANGED <<itervars, made, base, turns>>

NextQuery ==
  \/ SetMatchMethod
  \/ QueryAddNodeHead
  \/ QueryAddNodeTail
  \/ QueryDelNode
  \/ Index
  \/ SearchKey

SpecQuery == Init /\ [][NextQuery]_vars

----------------------------------------------------------------------------
(* The rotation specification: one list, and a caller that counts the      *)
(* listRotate calls made since the list last gained or lost a node.         *)

\* The list was changed: the count starts again from what it holds now.
Restart ==
  /\ base' = Fwd(1)'
  /\ turns' = 0

RotateAddNodeTail ==
  \E v \in Values, node \in zmalloc :
    LET m == listAddNodeTail(Enter, 1, node, v) IN
    /\ Store(m)
    /\ Called("listAddNodeTail", node, m)
    /\ Restart
    /\ UNCHANGED <<itervars, made, res>>

RotateDelNode ==
  \E node \in InList(1) :
    LET m == listDelNode(Enter, 1, node) IN
    /\ Store(m)
    /\ CalledVoid("listDelNode", m)
    /\ Restart
    /\ UNCHANGED <<itervars, made, res>>

RotateAgain ==
  /\ turns <= MaxNodes
  /\ LET m == listRotate(Enter, 1) IN
     /\ Store(m)
     /\ CalledVoid("listRotate", m)
  /\ turns' = turns + 1
  /\ UNCHANGED <<itervars, made, res, base>>

NextRotate ==
  \/ RotateAddNodeTail
  \/ RotateDelNode
  \/ RotateAgain

SpecRotate == Init /\ [][NextRotate]_vars

----------------------------------------------------------------------------
(* The duplication specification.  List 1 is the original: it is built by  *)
(* appending, with or without a dup and a free method.  listDup is called  *)
(* on it while no copy exists; the copy, if one is returned, is list       *)
(* record 2, which the caller then changes or releases.  The pool has      *)
(* room for the nodes of both lists, and zmalloc, when it succeeds, gives  *)
(* the free cell of lowest address.                                        *)

DupNodes == 1..(MaxNodes + MaxNodes)

InitDup ==
  /\ prev = [n \in DupNodes |-> NULL]
  /\ next = [n \in DupNodes |-> NULL]
  /\ value = [n \in DupNodes |-> NULL]
  /\ live = {}
  /\ head = [l \in Lists |-> NULL]
  /\ tail = [l \in Lists |-> NULL]
  /\ len = [l \in Lists |-> 0]
  /\ dup = [l \in Lists |-> FALSE]
  /\ free = [l \in Lists |-> FALSE]
  /\ match = [l \in Lists |-> FALSE]
  /\ iter = NoIter
  /\ op = NoOp
  /\ safe = TRUE
  /\ cur = NULL
  /\ orig = <<>>
  /\ want = AL_START_HEAD
  /\ visited = <<>>
  /\ removed = {}
  /\ uaf = FALSE
  /\ made = {1}
  /\ res = NoRes
  /\ base = <<>>
  /\ turns = 0

EnterDup == Enter @@ [made |-> made, dups |-> <<>>]

StoreDup(m) ==
  /\ Store(m)
  /\ made' = m.made

\* The i-th free cell, lowest address first.
RECURSIVE NthFree(_, _)
NthFree(cells, i) ==
  LET lowest == CHOOSE n \in cells : \A o \in cells : n <= o
  IN IF i = 1 THEN lowest ELSE NthFree(cells \ {lowest}, i - 1)

\* What zmalloc may return for a node of the copy: the lowest free cell, or
\* NULL; a list is not grown beyond MaxNodes.
zmallocCopy ==
  IF len[2] = MaxNodes THEN {} ELSE {NthFree(DupNodes \ live, 1), NULL}

\* What the dup method returns for value v when it succeeds at the i-th
\* node: a pointer to a new object, which no node holds.
copyOf(v, i) == v + i * MaxValue

\* The dup method returned NULL in the last of the calls logged.
HookFailed(dups) == dups # <<>> /\ dups[Len(dups)][2] = NULL

\* listSetDupMethod(l, m) and listSetFreeMethod(l, m) on the original.
DupSetMethods ==
  /\ 2 \notin made
  /\ \E d \in BOOLEAN, f \in BOOLEAN :
       /\ <<d, f>> # <<dup[1], free[1]>>
       /\ dup' = [dup EXCEPT ![1] = d]
       /\ free' = [free EXCEPT ![1] = f]
  /\ op' = [NoOp EXCEPT !.name = "listSetDupMethod"]
  /\ res' = NoRes
  /\ UNCHANGED <<prev, next, value, live, head, tail, len, match>>
  /\ UNCHANGED <<itervars, made, base, turns>>

DupAddNodeTail ==
  /\ 2 \notin made
  /\ len[1] < MaxNodes
  /\ \E v \in Values, node \in {NthFree(DupNodes \ live, 1), NULL} :
       LET m == listAddNodeTail(Enter, 1, node, v) IN
       /\ Store(m)
       /\ Called("listAddNodeTail", node, m)
  /\ res' = NoRes
  /\ UNCHANGED <<itervars, made, base, turns>>

\* listDup(1): one allocation or one call of the dup method fails, or none
\* does (the call returns at the first failure).  listCreate gets record 2
\* or NULL; the dup method returns NULL at node `nodup`, zmalloc returns
\* NULL for the node of value `nocell`; 0 is for no node.
\* The caller notes the node sequence of the original when a copy is
\* returned.
Dup ==
  /\ 2 \notin made
  /\ \E list \in {2, NULL}, nodup \in 0..len[1], nocell \in 0..len[1] :
       /\ nodup = 0 \/ nocell = 0
       /\ list = NULL => nodup = 0 /\ nocell = 0
       /\ nodup # 0 => dup[1]
       /\ LET hook == [i \in 1..len[1] |->
                        IF i = nodup THEN NULL
                        ELSE copyOf(ValSeq(1)[i], i)]
              cells == [i \in 1..len[1] |->
                         IF i = nocell THEN NULL
                         ELSE NthFree(DupNodes \ live, i)]
              m == listDup(EnterDup, 1, list, hook, cells)
          IN /\ StoreDup(m)
             /\ op' = [name |-> "listDup",
                       oom |-> (m.ret = NULL /\ ~HookFailed(m.dups)),
                       failed |-> (m.ret = NULL), calls |-> m.calls]
             /\ res' = [ret |-> m.ret, dups |-> m.dups]
             /\ base' = IF m.ret = NULL THEN <<>> ELSE Fwd(1)
  /\ turns' = 0
  /\ UNCHANGED itervars

\* The caller changes the copy it holds, MaxChanges times at most.
HoldsCopy ==
  /\ 2 \in made
  /\ turns < MaxChanges

Changed ==
  /\ turns' = turns + 1
  /\ res' = NoRes
  /\ UNCHANGED <<itervars, made, base>>

CopyAddNodeHead ==
  /\ HoldsCopy
  /\ \E v \in Values, node \in zmallocCopy :
       LET m == listAddNodeHead(Enter, 2, node, v) IN
       /\ Store(m)
       /\ Called("listAddNodeHead", node, m)
  /\ Changed

CopyInsertNode ==
  /\ HoldsCopy
  /\ \E v \in Values, node \in zmallocCopy, after \in BOOLEAN :
       \E old_node \in InList(2) :
         LET m == listInsertNode(Enter, 2, old_node, node, v, after) IN
         /\ Store(m)
         /\ Called("listInsertNode", node, m)
  /\ Changed

CopyDelNode ==
  /\ HoldsCopy
  /\ \E node \in InList(2) :
       LET m == listDelNode(Enter, 2, node) IN
       /\ Store(m)
       /\ CalledVoid("listDelNode", m)
  /\ Changed

CopyRotate ==
  /\ HoldsCopy
  /\ LET m == listRotate(Enter, 2) IN
     /\ Store(m)
     /\ CalledVoid("listRotate", m)
  /\ Changed

CopyRelease ==
  /\ 2 \in made
  /\ LET m == listRelease(EnterDup, 2) IN
     /\ StoreDup(m)
     /\ CalledVoid("listRelease", m)
  /\ res' = NoRes
  /\ base' = <<>>
  /\ turns' = 0
  /\ UNCHANGED itervars

NextDup ==
  \/ DupSetMethods
  \/ DupAddNodeTail
  \/ Dup
  \/ CopyAddNodeHead
  \/ CopyInsertNode
  \/ CopyDelNode
  \/ CopyRotate
  \/ CopyRelease

SpecDup == InitDup /\ [][NextDup]_vars

----------------------------------------------------------------------------
(* Properties of the list specification *)

ListNodes(l) == Range(Fwd(l)) \cup Range(Bwd(l))
Allocating == {"listAddNodeHead", "listAddNodeTail", "listInsertNode"}

\* C1: in every reachable state the length field of each list equals the
\* number of nodes met walking next-links from head, and the number met
\* walking prev-links from tail.
C1_LengthIsNodeCount ==
  \A l \in Lists : len[l] = Len(Fwd(l)) /\ len[l] = Len(Bwd(l))

C1_Witness ==
  op.name = "listJoin" /\ len[1] >= 3 /\ Len(Fwd(1)) >= 3

\* C2: in every reachable state, length is 0 exactly when head and tail are
\* both NULL; length is 1 exactly when head and tail are one node whose prev
\* and next are both NULL; and in a non-empty list the head is the only node
\* with a NULL prev and the tail the only node with a NULL next.
C2_Boundaries ==
  \A l \in Lists :
    /\ (len[l] = 0) <=> (head[l] = NULL /\ tail[l] = NULL)
    /\ (len[l] = 1) <=> /\ head[l] # NULL
                        /\ head[l] = tail[l]
                        /\ prev[head[l]] = NULL
                        /\ next[head[l]] = NULL
    /\ len[l] > 0 =>
         /\ {n \in ListNodes(l) : prev[n] = NULL} = {head[l]}
         /\ {n \in ListNodes(l) : next[n] = NULL} = {tail[l]}

C2_Witness ==
  op.name = "listRotate" /\ len[1] >= 3 /\ len[2] = 0

\* C3: in every reachable state the forward traversal from head is the
\* reverse of the backward traversal from tail, and every node of a list is
\* the prev of its next and the next of its prev.
C3_LinksAgree ==
  \A l \in Lists :
    /\ Fwd(l) = Reverse(Bwd(l))
    /\ \A n \in ListNodes(l) :
         /\ next[n] # NULL => prev[next[n]] = n
         /\ prev[n] # NULL => next[prev[n]] = n

C3_Witness ==
  op.name = "listInsertNode" /\ ~op.failed /\ len[1] >= 3

\* C4: a call of listAddNodeHead, listAddNodeTail or listInsertNode in which
\* zmalloc fails returns NULL and changes no field of any list or node.
C4_FailedInsertChangesNothing ==
  [][(op'.name \in Allocating /\ op'.oom) =>
       (op'.failed /\ UNCHANGED memvars)]_vars

C4_Witness ==
  op.name = "listInsertNode" /\ op.oom /\ op.failed /\ len[1] >= 2 /\ free[1]

\* The order in which the running iteration has to return the nodes.
Order == IF want = AL_START_HEAD THEN orig ELSE Reverse(orig)
Due == IF Len(visited) < Len(Order) THEN Order[Len(visited) + 1] ELSE NULL

\* C5: while the caller deletes nothing but the node listNext just returned,
\* no call of listNext reads or returns a freed cell; the nodes returned so
\* far are the first nodes of the original list in the direction asked for,
\* each once; the iterator stands on the next of them, or on NULL after the
\* last; NULL is returned only after all of them; and the list holds the
\* original nodes less the deleted ones, in their order, with its length,
\* head, tail and links consistent.
C5_DeleteWhileIterating ==
  (iter.valid /\ safe) =>
    /\ ~uaf
    /\ Len(visited) <= Len(Order)
    /\ visited = SubSeq(Order, 1, Len(visited))
    /\ iter.next = Due
    /\ (op.name = "listNext" /\ cur = NULL) => visited = Order
    /\ cur # NULL => (cur \in live /\ cur = visited[Len(visited)])
    /\ removed \subseteq Range(visited)
    /\ Fwd(1) = SelectSeq(orig, LAMBDA n : n \notin removed)
    /\ Bwd(1) = Reverse(Fwd(1))
    /\ len[1] = Len(Fwd(1))
    /\ (len[1] = 0) <=> (head[1] = NULL /\ tail[1] = NULL)
    /\ Range(Fwd(1)) \subseteq live

C5_Witness ==
  /\ iter.valid /\ safe /\ op.name = "listNext" /\ cur = NULL
  /\ want = AL_START_TAIL /\ Len(orig) = 3 /\ Len(visited) = 3
  /\ Cardinality(removed) = 2 /\ len[1] = 1

\* C6: on a list that is not modified, after listGetIterator or listRewind
\* the calls of listNext return the nodes from head to tail, after
\* listGetIterator(AL_START_TAIL) or listRewindTail from tail to head,
\* whatever the iterator held before; every call after the last node
\* returns NULL and leaves the iterator as it was.
C6_IterationOrder ==
  [][(op'.name = "listNext" /\ iter.valid /\ safe /\ removed = {}) =>
       /\ cur' = Due
       /\ Fwd(1) = orig
       /\ Due = NULL => (iter' = iter /\ iter'.next = NULL /\ visited' = Order)
       /\ iter'.direction = want
    ]_vars

C6_Witness ==
  /\ iter.valid /\ safe /\ op.name = "listNext" /\ cur = NULL
  /\ iter.next = NULL
  /\ want = AL_START_TAIL /\ removed = {} /\ Len(visited) = 3
  /\ visited = Bwd(1)

\* C7: a successful listAddNodeHead(v) puts the new node, holding v, in front
\* of the former sequence and listIndex(list, 0) is then that node; a
\* successful listAddNodeTail(v) puts it behind the former sequence and
\* listIndex(list, -1) is then that node; length grows by exactly 1.
C7_AddNodeHeadTail ==
  [][/\ op'.name = "listAddNodeHead" =>
          \A l \in Lists, v \in Values, node \in Nodes \ live :
            Store(listAddNodeHead(Enter, l, node, v)) =>
              /\ ~op'.failed
              /\ Fwd(l)' = <<node>> \o Fwd(l)
              /\ ValSeq(l)' = <<v>> \o ValSeq(l)
              /\ listIndex(After, l, 0) = node
              /\ len'[l] = len[l] + 1
     /\ op'.name = "listAddNodeTail" =>
          \A l \in Lists, v \in Values, node \in Nodes \ live :
            Store(listAddNodeTail(Enter, l, node, v)) =>
              /\ ~op'.failed
              /\ Fwd(l)' = Fwd(l) \o <<node>>
              /\ ValSeq(l)' = ValSeq(l) \o <<v>>
              /\ listIndex(After, l, -1) = node
              /\ len'[l] = len[l] + 1
    ]_vars

C7_Witness ==
  /\ op.name = "listAddNodeHead" /\ ~op.failed
  /\ len[1] = 3 /\ ValSeq(1) = <<1, 2, 1>>

C9_Join ==
  [][op'.name = "listJoin" =>
       \A l \in Lists, o \in Lists :
         (l # o /\ Store(listJoin(Enter, l, o))) =>
           /\ Fwd(l)' = Fwd(l) \o Fwd(o)
           /\ Bwd(l)' = Reverse(Fwd(l) \o Fwd(o))
           /\ len'[l] = len[l] + len[o]
           /\ head'[o] = NULL /\ tail'[o] = NULL /\ len'[o] = 0
           /\ head'[l] = (IF len[l] > 0 THEN head[l] ELSE head[o])
           /\ tail'[l] = (IF len[o] > 0 THEN tail[o] ELSE tail[l])
           /\ live' = live /\ value' = value
           /\ op'.calls = <<>>
    ]_vars

C9_Witness ==
  /\ op.name = "listJoin" /\ len[1] = 3 /\ len[2] = 0
  /\ ValSeq(1) = <<1, 2, 2>>

\* C10: listRotate on a list of 2 or more nodes moves the tail node to the
\* head and keeps the other nodes in order; on a list of 0 or 1 nodes it
\* changes nothing; it never changes a length, a value or the allocated cells.
C10_Rotate ==
  [][op'.name = "listRotate" =>
       \A l \in Lists :
         Store(listRotate(Enter, l)) =>
           /\ len[l] >= 2 =>
                Fwd(l)' = <<tail[l]>> \o SubSeq(Fwd(l), 1, Len(Fwd(l)) - 1)
           /\ len[l] <= 1 => UNCHANGED memvars
           /\ \A k \in Lists \ {l} : Fwd(k)' = Fwd(k)
           /\ len' = len /\ live' = live /\ value' = value
           /\ op'.calls = <<>>
    ]_vars

C10_Witness ==
  op.name = "listRotate" /\ len[1] = 3 /\ ValSeq(1) = <<2, 1, 1>>

\* List l holds one node and nothing else.
OneNode(l) ==
  /\ len[l] = 1
  /\ head[l] # NULL
  /\ head[l] = tail[l]
  /\ head[l] \in live
  /\ prev[head[l]] = NULL
  /\ next[head[l]] = NULL
  /\ value[head[l]] \in Values

\* C16: listEmpty, on a list of any length, frees every node of the list
\* and no other, hands each stored value to the free method once (in list
\* order) when one is installed and calls it on nothing otherwise, leaves
\* len 0, head and tail NULL and the three hooks as they were; a
\* listAddNodeHead or listAddNodeTail that follows and succeeds leaves a
\* well-formed list of one node.
C16_Empty ==
  [][/\ op'.name = "listEmpty" =>
          \A l \in Lists :
            Store(listEmpty(Enter, l)) =>
              /\ live' = live \ InList(l)
              /\ op'.calls = IF free[l] THEN ValSeq(l) ELSE <<>>
              /\ len'[l] = 0
              /\ head'[l] = NULL
              /\ tail'[l] = NULL
              /\ dup'[l] = dup[l]
              /\ free'[l] = free[l]
              /\ match'[l] = match[l]
     /\ /\ op.name = "listEmpty"
        /\ op'.name \in {"listAddNodeHead", "listAddNodeTail"}
        /\ ~op'.failed
        => \A l \in Lists : len[l] = 0 /\ len'[l] # 0 => OneNode(l)'
    ]_vars

C16_Witness ==
  /\ op.name = "listEmpty"
  /\ Len(op.calls) = MaxNodes
  /\ \E i, j \in 1..MaxNodes : op.calls[i] # op.calls[j]
  /\ live = {}
  /\ free[1]

\* The place of node x in the sequence s.
Pos(s, x) == CHOOSE i \in 1..Len(s) : s[i] = x

\* The step leaves memory as the call that returned m left it.
Gives(m) == After = [m EXCEPT !.ret = NULL, !.calls = <<>>]

\* C17: a listInsertNode that succeeds, with old_node in the list, puts
\* the new node right after old_node (after # 0) or right before it
\* (after = 0), keeps the other nodes in their order and adds 1 to len;
\* the new node is the tail exactly when after # 0 and old_node was the
\* tail, the head exactly when after = 0 and old_node was the head;
\* head and tail are otherwise unchanged.
C17_InsertNode ==
  [][op'.name = "listInsertNode" /\ ~op'.failed =>
       \A node \in live' \ live :
         LET near == {prev'[node], next'[node]}
             Call(l, old_node) ==
               listInsertNode(Enter, l, old_node, node, value'[node],
                              prev'[node] = old_node)
         IN
         \* the step is such a call: old_node is a neighbour of the new node
         /\ \E l \in Lists : \E old_node \in near \cap InList(l) :
              Gives(Call(l, old_node))
         /\ \A l \in Lists : \A old_node \in near \cap InList(l) :
              Gives(Call(l, old_node)) =>
                LET after == (prev'[node] = old_node)
                    s == Fwd(l)
                    k == Pos(s, old_node)
                IN /\ Fwd(l)' = IF after
                                THEN SubSeq(s, 1, k) \o <<node>>
                                       \o SubSeq(s, k + 1, Len(s))
                                ELSE SubSeq(s, 1, k - 1) \o <<node>>
                                       \o SubSeq(s, k, Len(s))
                   /\ Without(Fwd(l)', node) = s
                   /\ len'[l] = len[l] + 1
                   /\ (tail'[l] = node) <=> (after /\ tail[l] = old_node)
                   /\ (head'[l] = node) <=> (~after /\ head[l] = old_node)
                   /\ tail'[l] # node => tail'[l] = tail[l]
                   /\ head'[l] # node => head'[l] = head[l]
    ]_vars

C17_Witness ==
  /\ op.name = "listInsertNode"
  /\ ~op.failed
  /\ len[1] = MaxNodes
  /\ len[2] = 0

----------------------------------------------------------------------------
(* Properties of the query specification *)

\* The positions of list 1, head first, whose node the key selects: by the
\* match method when one is installed, by pointer identity otherwise.
Hits(key) ==
  {i \in 1..Len(Fwd(1)) :
     IF match[1] THEN matchMethod(value[Fwd(1)[i]], key)
     ELSE value[Fwd(1)[i]] = key}

\* C11: on a list of length n, listIndex returns the i-th node from the
\* head for 0 <= i <= n-1 (0 is the head), the node at position n+i from
\* the head for -n <= i <= -1 (-1 is the tail), and NULL for every other
\* index, an empty list included; the call changes nothing in memory.
C11_Index ==
  [][op'.name = "listIndex" =>
       LET i == res'.index
           n == len[1]
       IN /\ res'.ret = IF 0 <= i /\ i <= n - 1 THEN Fwd(1)[i + 1]
                        ELSE IF -n <= i /\ i <= -1 THEN Fwd(1)[n + i + 1]
                        ELSE NULL
          /\ UNCHANGED memvars
    ]_vars

C11_Witness ==
  /\ op.name = "listIndex"
  /\ len[1] = MaxNodes
  /\ res.index = -2
  /\ res.ret = Fwd(1)[MaxNodes - 1]
  /\ res.ret # NULL

\* C12: listSearchKey returns the first node, head to tail, that matches
\* the key: by the match method when one is installed, by identity of the
\* value pointer and the key otherwise.  It returns NULL exactly when no
\* node matches, and it changes nothing in memory.
C12_SearchKey ==
  [][op'.name = "listSearchKey" =>
       LET hits == Hits(res'.key) IN
       /\ (res'.ret = NULL) <=> (hits = {})
       /\ hits # {} =>
            \E i \in hits : /\ res'.ret = Fwd(1)[i]
                             /\ \A j \in hits : i <= j
       /\ UNCHANGED memvars
    ]_vars

C12_Witness ==
  /\ op.name = "listSearchKey"
  /\ match[1]
  /\ len[1] = MaxNodes
  /\ Cardinality(Hits(res.key)) >= 2
  /\ 1 \notin Hits(res.key)
  /\ res.ret # NULL
  /\ value[res.ret] # res.key


----------------------------------------------------------------------------
(* Properties of the rotation specification *)

\* The sequence s with its last k elements moved, in order, to the front.
ShiftRight(s, k) ==
  SubSeq(s, Len(s) - k + 1, Len(s)) \o SubSeq(s, 1, Len(s) - k)

\* C19: on a list of n >= 1 nodes, after k calls of listRotate, 0 <= k <= n,
\* the node sequence is the original one shifted cyclically right by k, so
\* n calls give the original sequence back; the set of nodes and len are
\* the same after any number of calls.
C19_RotateCycle ==
  /\ Range(Fwd(1)) = Range(base)
  /\ len[1] = Len(base)
  /\ len[1] >= 1 /\ turns <= len[1] =>
       /\ Fwd(1) = ShiftRight(base, turns)
       /\ Bwd(1) = Reverse(ShiftRight(base, turns))
       /\ turns = len[1] => Fwd(1) = base

C19_Witness ==
  /\ op.name = "listRotate"
  /\ len[1] = MaxNodes
  /\ turns = MaxNodes
  /\ Fwd(1) = base

----------------------------------------------------------------------------
(* Properties of the duplication specification *)

\* The step leaves the original as it was: the list record and every node.
SourceSame ==
  /\ 1 \in made'
  /\ head'[1] = head[1]
  /\ tail'[1] = tail[1]
  /\ len'[1] = len[1]
  /\ dup'[1] = dup[1]
  /\ free'[1] = free[1]
  /\ match'[1] = match[1]
  /\ \A n \in InList(1) :
       /\ n \in live'
       /\ prev'[n] = prev[n]
       /\ next'[n] = next[n]
       /\ value'[n] = value[n]

\* C13: listDup changes nothing of the original, whether it returns a copy,
\* fails because the dup method returned NULL, or fails because the list
\* record or a node could not be allocated: head, tail, len, the hooks and
\* the links and value of every node are as before the call.
C13_DupKeepsSource ==
  [][op'.name = "listDup" => SourceSame]_vars

C13_Witness ==
  /\ op.name = "listDup"
  /\ op.failed
  /\ op.oom
  /\ dup[1]
  /\ free[1]
  /\ len[1] = MaxNodes
  /\ Len(res.dups) = MaxNodes

\* C14: when the dup method returns NULL for an element, listDup stops at
\* that element (the method was called for the elements up to it, in
\* order, and for none after it), releases the partial copy (its nodes are
\* freed and, with a free method, every value copied so far is handed to
\* it) and returns NULL; a list that listDup returns is never partial.
C14_DupHookFails ==
  [][op'.name = "listDup" =>
       /\ HookFailed(res'.dups) =>
            LET k == Len(res'.dups) IN
            /\ res'.ret = NULL
            /\ k <= len[1]
            /\ \A i \in 1..k : res'.dups[i][1] = ValSeq(1)[i]
            /\ \A i \in 1..(k - 1) : res'.dups[i][2] # NULL
            /\ live' = live
            /\ made' = made
            /\ op'.calls = IF free[1]
                           THEN [i \in 1..(k - 1) |-> res'.dups[i][2]]
                           ELSE <<>>
       /\ \A copy \in Lists :
            copy = res'.ret =>
              /\ ~HookFailed(res'.dups)
              /\ Len(Fwd(copy)') = len[1]
    ]_vars

C14_Witness ==
  /\ op.name = "listDup"
  /\ HookFailed(res.dups)
  /\ Len(res.dups) = MaxNodes
  /\ Len(op.calls) = MaxNodes - 1
  /\ Cardinality(live) = MaxNodes
  /\ made = {1}

Produced(dups) == {dups[i][2] : i \in 1..Len(dups)} \ {NULL}

\* C18: when listDup fails on a list with a dup and a free method, because
\* the dup method returned NULL or because a node could not be allocated,
\* every copy the dup method returned during the call was handed to the
\* free method exactly once before listDup returned.
C18_FailedDupFreesCopies ==
  [][op'.name = "listDup" /\ op'.failed /\ dup[1] /\ free[1] =>
       \A c \in Produced(res'.dups) :
         Cardinality({j \in 1..Len(op'.calls) : op'.calls[j] = c}) = 1
    ]_vars

\* A failed listDup after which a copy made by the dup method was not
\* handed to the free method and is held by no node.
C18_Witness ==
  /\ op.name = "listDup"
  /\ op.failed
  /\ dup[1]
  /\ free[1]
  /\ \E c \in Produced(res.dups) :
       /\ c \notin Range(op.calls)
       /\ \A n \in live : value[n] # c

====
